---------------------------- MODULE Spec2Model ----------------------------
(***************************************************************************)
(* Model of src/t2i.py: a Streamlit script that builds image-request URLs, *)
(* downloads them through a TTL cache, and keeps a session history and a   *)
(* favorites list.  One script run is split at the points where the        *)
(* environment supplies a value: a wall-clock reading (URL loop), a        *)
(* network outcome (download loop, history rendering).  The clock may move *)
(* between any two such points.                                            *)
(*                                                                         *)
(* Text is modelled as a sequence of one-character strings where the code  *)
(* inspects characters (strip, quote, lower) and as a TLA+ string once it  *)
(* is only compared or concatenated.                                       *)
(***************************************************************************)
EXTENDS Integers, Sequences, FiniteSets, TLC

(* ------------------------------ bounds -------------------------------- *)
\* Events explored per session: button clicks and clock movements.
MaxEvents == 3
\* Batches (Generate clicks with a valid prompt) explored per session.
MaxBatches == 1
\* Largest value of the "Variations" slider explored (the slider allows 6).
MaxVariations == 2

(* ------------------------- program constants -------------------------- *)
\* @st.cache_data(ttl=60 * 60), in seconds.
TTL == 3600
\* "% 1000000" of the time-based seed.
SeedModulus == 1000000
\* st.session_state.history[:8]
HistoryShown == 8
\* Wall-clock reading (ms since the epoch day's midnight) at session start.
WallStart == 999998

None == "None"

(* ------------------------------ inputs -------------------------------- *)
Whitespace == {" ", "\t", "\n"}

\* Values of the prompt text area tried: empty, whitespace only, a real prompt.
Prompts == { <<>>, <<" ", "\t">>, <<"a", " ", "b">> }

\* Values of the negative-prompt text input tried.
Negatives == { <<" ", "x">> }

\* The option of the style selectbox tried.
Styles == { <<"A", "n", "i", "m", "e">> }

\* Values of the "Seed (fixed)" number input tried (0..999999 allowed).
FixedSeeds == { 42, 999999 }

\* Time that passes between two steps of a run, in milliseconds: one second.
Deltas == { 1000 }

\* Time the user lets pass between two runs, in milliseconds: one second less
\* than the cache's time to live, and the time to live.
Waits == { (TTL - 1) * 1000, TTL * 1000 }

RATIO_PRESETS ==
    [ r \in {"1:1 (Square)", "9:16 (Reels/Shorts)", "16:9 (Landscape)", "4:5 (Instagram Post)"} |->
        CASE r = "1:1 (Square)"         -> <<1024, 1024>>
          [] r = "9:16 (Reels/Shorts)"  -> <<768, 1365>>
          [] r = "16:9 (Landscape)"     -> <<1365, 768>>
          [] r = "4:5 (Instagram Post)" -> <<1024, 1280>> ]

\* Presets tried (custom sizes are not explored).
Ratios == { "1:1 (Square)" }

(* --------------------------- text helpers ----------------------------- *)
RECURSIVE Join(_)
\* The string spelled by a sequence of string fragments.
Join(s) == IF s = <<>> THEN "" ELSE Head(s) \o Join(Tail(s))

RECURSIVE LStrip(_)
LStrip(s) == IF s # <<>> /\ Head(s) \in Whitespace THEN LStrip(Tail(s)) ELSE s

RECURSIVE RStrip(_)
RStrip(s) ==
    IF s # <<>> /\ s[Len(s)] \in Whitespace THEN RStrip(SubSeq(s, 1, Len(s) - 1)) ELSE s

\* str.strip()
Strip(s) == RStrip(LStrip(s))

\* str.lower(), on the letters that occur in the style names.
LowerChar(c) ==
    CASE c = "A" -> "a"
      [] c = "C" -> "c"
      [] c = "F" -> "f"
      [] c = "P" -> "p"
      [] c = "R" -> "r"
      [] OTHER   -> c

Lower(s) == [ i \in 1..Len(s) |-> LowerChar(s[i]) ]

\* urllib.parse.quote with its default safe="/": letters, digits and "_.-~/"
\* are kept, every other character becomes %XX.
QuoteChar(c) ==
    CASE c = " "  -> "%20"
      [] c = "\t" -> "%09"
      [] c = "\n" -> "%0A"
      [] c = ","  -> "%2C"
      [] c = ":"  -> "%3A"
      [] OTHER    -> c

quote(s) == Join([ i \in 1..Len(s) |-> QuoteChar(s[i]) ])

TwoDigits(n) == IF n < 10 THEN "0" \o ToString(n) ELSE ToString(n)

\* datetime.now().strftime("%Y-%m-%d %H:%M:%S") for a reading in milliseconds
\* since midnight of the epoch day (second precision; days 1..31 of the month).
strftime(ms) ==
    LET secs == ms \div 1000
        day  == secs \div 86400
        rest == secs % 86400
    IN  "1970-01-" \o TwoDigits(day + 1) \o " " \o TwoDigits(rest \div 3600) \o ":"
          \o TwoDigits((rest % 3600) \div 60) \o ":" \o TwoDigits(rest % 60)

(* ------------------------------ helpers ------------------------------- *)
build_prompt(style, prompt, negative) ==
    LET base == Strip(style \o <<" ", "s", "t", "y", "l", "e", ",", " ">> \o prompt)
    IN  IF Strip(negative) # <<>>
        THEN base \o <<".", " ", "N", "e", "g", "a", "t", "i", "v", "e", " ",
                       "p", "r", "o", "m", "p", "t", ":", " ">> \o Strip(negative)
        ELSE base

pollinations_url(final_prompt, width, height, seed) ==
    LET url == "https://image.pollinations.ai/prompt/" \o quote(final_prompt)
                 \o "?width=" \o ToString(width) \o "&height=" \o ToString(height)
    IN  IF seed \in Int THEN url \o "&seed=" \o ToString(seed) ELSE url


(* ------------------------------- state -------------------------------- *)
VARIABLES
    history,            \* st.session_state.history, newest first
    favorites,          \* st.session_state.favorites, newest first
    cache,              \* entries of @st.cache_data on fetch_image_bytes
    netLog,             \* the network calls (requests.get) made so far, in order
    lastFetch,          \* the latest call of fetch_image_bytes, if any
    wall,               \* the wall clock (datetime.utcnow / datetime.now), ms
    mono,               \* the cache's monotonic timer, ms
    events,             \* button clicks and clock movements so far
    batches,            \* batches so far
    pc,                 \* position of the script run: idle, urls, download, history
    clicked,            \* the button that started the run: gen, clear, a Save key, or ""
    prompt, negative, style, ratio, variations, seed_mode, seed_value,  \* widgets
    final_prompt,       \* local of the generate block
    urls,               \* local of the generate block: <<url, seed>> pairs
    idx,                \* loop variable of the loop the run is in
    images_downloaded,  \* local of the generate block: <<filename, bytes>> pairs
    attempted,          \* the indexes whose download the batch has attempted
    failures,           \* the indexes st.error has reported for the batch
    rendered,           \* keys of the Save buttons the run has put on the page
    crashed             \* the last run ended in an uncaught exception

widgets == <<prompt, negative, style, ratio, variations, seed_mode, seed_value>>
locals  == <<final_prompt, urls, images_downloaded, attempted, failures>>
clocks  == <<wall, mono>>
vars    == <<history, favorites, cache, netLog, lastFetch, clocks, events, batches, pc, clicked, widgets,
             locals, idx, rendered, crashed>>

w == RATIO_PRESETS[ratio][1]
h == RATIO_PRESETS[ratio][2]

Min(a, b) == IF a < b THEN a ELSE b

Range(seq) == { seq[i] : i \in 1..Len(seq) }

(* ------------------------- fetch_image_bytes -------------------------- *)
\* The bytes the endpoint serves for a URL.
Content(url) == <<"png", url>>

\* Variant: an entry exactly as old as the time to live still counts.
CacheHitAtExpiry(url) == \E e \in cache : e.url = url /\ mono - e.at <= TTL * 1000

\* A cache entry for the URL that is younger than the time to live.
CacheHit(url) == \E e \in cache : e.url = url /\ mono - e.at < TTL * 1000

\* The result of one call: "hit" (served from the cache), or the outcome of the
\* network call: "ok" (stored and returned) or "fail" (raised, nothing stored).
FetchResult(url, net_ok) ==
    IF CacheHit(url) THEN "hit" ELSE IF net_ok THEN "ok" ELSE "fail"

CacheAfter(url, res) ==
    IF res = "ok"
    THEN { e \in cache : e.url # url } \cup { [url |-> url, at |-> mono] }
    ELSE cache

\* The network calls after one call of fetch_image_bytes: a hit makes none.
LogAfter(url, res) ==
    IF res = "hit" THEN netLog ELSE Append(netLog, [url |-> url, at |-> mono, ok |-> res = "ok"])

\* The call itself: its URL, its time, whether it went to the network, and
\* whether it returned bytes.
CallRecord(url, res) ==
    <<[url |-> url, at |-> mono, net |-> res # "hit", ok |-> res # "fail"]>>

(* -------------------------- generate block ---------------------------- *)
\* Variant: "if not prompt", without the strip.
IsBlankNoStrip(p) == p = <<>>

\* "if not prompt.strip()"
IsBlank(p) == Strip(p) = <<>>

\* Variant: the time-based seed whatever the seed mode.
SeedForAlwaysTimed(i) == (wall % SeedModulus) + i

\* seed_i of variation i (zero-based) at the current clock reading.
SeedFor(i) ==
    IF seed_mode = "Random" THEN (wall % SeedModulus) + i ELSE seed_value

\* Variant: "for i in range(variations - 1)".
UrlLoopDoneEarly(i) == i >= variations - 1

\* "for i in range(variations)" is over once i has reached variations.
UrlLoopDone(i) == i >= variations

\* Variant: the filename without the index.
FilenameNoIndex(st, k, s) ==
    "ps333_" \o Join(Lower(st)) \o "_seed" \o ToString(s) \o ".png"

\* filename = f"ps333_{style.lower()}_{idx}_seed{s}.png"
Filename(st, k, s) ==
    "ps333_" \o Join(Lower(st)) \o "_" \o ToString(k) \o "_seed" \o ToString(s) \o ".png"

\* The dict pushed to the history.
Record(url, s) ==
    [ url |-> url, prompt |-> Join(final_prompt), style |-> Join(style),
      w |-> w, h |-> h, seed |-> s, ts |-> strftime(wall) ]

\* Variant: list.append(r).
InsertHistoryAtEnd(hist, r) == Append(hist, r)

\* list.insert(0, r)
InsertHistory(hist, r) == <<r>> \o hist

\* Variant: a failure breaks out of the loop.
DownloadNextBreak(k, failed) == IF failed THEN Len(urls) + 1 ELSE k + 1

\* The index the download loop goes to after variation k, failed or not.
DownloadNext(k, failed) == k + 1

\* "if clear: st.session_state.history = []"
ClearedHistory(hist) == <<>>

(* ------------------------ history and favorites ----------------------- *)
\* key=f"fav_{item['ts']}_{item['seed']}"
SaveKey(item) == "fav_" \o item.ts \o "_" \o ToString(item.seed)

\* Variant: an item that is a favorite already is not inserted again.
PromoteDedup(favs, item) == IF item \in Range(favs) THEN favs ELSE <<item>> \o favs

\* st.session_state.favorites.insert(0, item)
Promote(favs, item) == <<item>> \o favs

ShownCount(hist) == Min(HistoryShown, Len(hist))

\* Where a run goes once the generate block is over: the history loop, or, with
\* nothing to show, the end of the script.
RenderStart(hist) == IF hist = <<>> THEN "idle" ELSE "history"

(* -------------------------------- init -------------------------------- *)
\* init_state() on the first run of a session, the widgets at their defaults.
Init ==
    /\ history = <<>>
    /\ favorites = <<>>
    /\ cache = {}
    /\ netLog = <<>>
    /\ lastFetch = <<>>
    /\ wall = WallStart
    /\ mono = 0
    /\ events = 0
    /\ batches = 0
    /\ pc = "idle"
    /\ clicked = ""
    /\ prompt = <<>>
    /\ negative = <<>>
    /\ style = <<"R", "e", "a", "l", "i", "s", "t", "i", "c">>
    /\ ratio = "1:1 (Square)"
    /\ variations = 4
    /\ seed_mode = "Random"
    /\ seed_value = None
    /\ final_prompt = <<>>
    /\ urls = <<>>
    /\ idx = 0
    /\ images_downloaded = <<>>
    /\ attempted = <<>>
    /\ failures = <<>>
    /\ rendered = {}
    /\ crashed = FALSE

(* ------------------------------- clock -------------------------------- *)
\* Time passes during a run or between runs: both clocks advance.
Tick ==
    /\ events < MaxEvents
    /\ \E d \in Deltas :
        /\ wall' = wall + d
        /\ mono' = mono + d
    /\ events' = events + 1
    /\ UNCHANGED <<history, favorites, cache, netLog, lastFetch, batches, pc, clicked,
                   widgets, locals, idx, rendered, crashed>>

\* The user leaves the page alone for a while: both clocks advance.
Wait ==
    /\ pc = "idle"
    /\ events < MaxEvents
    /\ \E d \in Waits :
        /\ wall' = wall + d
        /\ mono' = mono + d
    /\ events' = events + 1
    /\ UNCHANGED <<history, favorites, cache, netLog, lastFetch, batches, pc, clicked,
                   widgets, locals, idx, rendered, crashed>>

\* The wall clock is set back by one millisecond (a clock adjustment); the
\* monotonic timer is not affected.
ClockStepBack ==
    /\ events < MaxEvents
    /\ wall' = wall - 1
    /\ events' = events + 1
    /\ UNCHANGED <<history, favorites, cache, netLog, lastFetch, mono, batches, pc, clicked, widgets,
                   locals, idx, rendered, crashed>>

(* ---------------------------- script runs ----------------------------- *)
\* What every run does first: the locals of the previous run are gone and the
\* page is empty.
BeginRun(button) ==
    /\ pc = "idle"
    /\ events < MaxEvents
    /\ events' = events + 1
    /\ clicked' = button
    /\ rendered' = {}
    /\ crashed' = FALSE

\* "Clear History" clicked: the history is emptied, and the history section has
\* nothing to show.
ClickClear ==
    /\ BeginRun("clear")
    /\ history' = ClearedHistory(history)
    /\ final_prompt' = <<>>
    /\ urls' = <<>>
    /\ images_downloaded' = <<>>
    /\ attempted' = <<>>
    /\ failures' = <<>>
    /\ idx' = 0
    /\ pc' = "idle"
    /\ UNCHANGED <<favorites, cache, netLog, lastFetch, clocks, batches, widgets>>

\* "Generate Images" clicked with a blank prompt: a warning, and no batch.  The
\* other widgets, which this run does not read, are left as they were.
ClickGenerateBlank ==
    /\ BeginRun("gen")
    /\ \E p \in Prompts :
        /\ IsBlank(p)
        /\ prompt' = p
    /\ final_prompt' = <<>>
    /\ urls' = <<>>
    /\ images_downloaded' = <<>>
    /\ attempted' = <<>>
    /\ failures' = <<>>
    /\ pc' = RenderStart(history)
    /\ idx' = IF history = <<>> THEN 0 ELSE 1
    /\ UNCHANGED <<history, favorites, cache, netLog, lastFetch, clocks, batches, negative, style,
                   ratio, variations, seed_mode, seed_value>>

\* "Generate Images" clicked with the widgets as the user has set them and a
\* prompt that is not blank: the final prompt is composed and the batch starts.
ClickGenerate ==
    /\ BeginRun("gen")
    /\ batches < MaxBatches
    /\ batches' = batches + 1
    /\ \E p \in Prompts, n \in Negatives, st \in Styles, r \in Ratios,
          v \in 1..MaxVariations, m \in {"Random", "Fixed"}, fs \in FixedSeeds :
        /\ ~IsBlank(p)
        /\ prompt' = p
        /\ negative' = n
        /\ style' = st
        /\ ratio' = r
        /\ variations' = v
        /\ seed_mode' = m
        /\ seed_value' = IF m = "Fixed" THEN fs ELSE None
        /\ final_prompt' = build_prompt(st, p, n)
    /\ urls' = <<>>
    /\ images_downloaded' = <<>>
    /\ attempted' = <<>>
    /\ failures' = <<>>
    /\ pc' = "urls"
    /\ idx' = 0
    /\ UNCHANGED <<history, favorites, cache, netLog, lastFetch, clocks>>

\* One iteration of the URL loop: the clock is read, the seed resolved, the URL
\* built and appended.
BuildUrl ==
    /\ pc = "urls"
    /\ LET seed_i == SeedFor(idx)
           url    == pollinations_url(final_prompt, w, h, seed_i)
       IN  urls' = Append(urls, <<url, seed_i>>)
    /\ IF UrlLoopDone(idx + 1)
       THEN pc' = "download" /\ idx' = 1
       ELSE pc' = "urls" /\ idx' = idx + 1
    /\ UNCHANGED <<history, favorites, cache, netLog, lastFetch, clocks, events, batches, clicked, widgets,
                   final_prompt, images_downloaded, attempted, failures, rendered,
                   crashed>>

\* One iteration of the download loop: the fetch, then either the filename, the
\* result and the history record, or the error message.
Download ==
    /\ pc = "download"
    /\ \E net_ok \in BOOLEAN :
        LET url == urls[idx][1]
            s   == urls[idx][2]
            res == FetchResult(url, net_ok)
            nxt == DownloadNext(idx, res = "fail")
        IN  /\ cache' = CacheAfter(url, res)
            /\ netLog' = LogAfter(url, res)
            /\ lastFetch' = CallRecord(url, res)
            /\ attempted' = Append(attempted, idx)
            /\ IF res = "fail"
               THEN /\ failures' = Append(failures, idx)
                    /\ UNCHANGED <<images_downloaded, history>>
               ELSE /\ images_downloaded' =
                          Append(images_downloaded, <<Filename(style, idx, s), Content(url)>>)
                    /\ history' = InsertHistory(history, Record(url, s))
                    /\ UNCHANGED failures
            /\ IF nxt <= Len(urls)
               THEN pc' = "download" /\ idx' = nxt
               ELSE pc' = RenderStart(history') /\ idx' = IF history' = <<>> THEN 0 ELSE 1
    /\ UNCHANGED <<favorites, clocks, events, batches, clicked, widgets, final_prompt, urls,
                   rendered, crashed>>

\* One iteration of the history loop: the download button's fetch (a failure is
\* swallowed), then the Save button.  A key already on the page makes st.button
\* raise, which ends the run; a clicked button promotes its item.
RenderItem ==
    /\ pc = "history"
    /\ \E net_ok \in BOOLEAN :
        LET item == history[idx]
            res  == FetchResult(item.url, net_ok)
            key  == SaveKey(item)
        IN  /\ cache' = CacheAfter(item.url, res)
            /\ netLog' = LogAfter(item.url, res)
            /\ lastFetch' = CallRecord(item.url, res)
            /\ IF key \in rendered
               THEN /\ crashed' = TRUE
                    /\ pc' = "idle"
                    /\ idx' = 0
                    /\ UNCHANGED <<rendered, favorites>>
               ELSE /\ rendered' = rendered \cup {key}
                    /\ favorites' = IF clicked = key THEN Promote(favorites, item)
                                                     ELSE favorites
                    /\ UNCHANGED crashed
                    /\ IF idx < ShownCount(history)
                       THEN pc' = "history" /\ idx' = idx + 1
                       ELSE pc' = "idle" /\ idx' = 0
    /\ UNCHANGED <<history, clocks, events, batches, clicked, widgets, locals>>

\* A Save button of the page clicked: the script reruns with that button set.
ClickSave ==
    /\ \E key \in rendered : BeginRun(key)
    /\ pc' = RenderStart(history)
    /\ idx' = IF history = <<>> THEN 0 ELSE 1
    /\ final_prompt' = <<>>
    /\ urls' = <<>>
    /\ images_downloaded' = <<>>
    /\ attempted' = <<>>
    /\ failures' = <<>>
    /\ UNCHANGED <<history, favorites, cache, netLog, lastFetch, clocks, batches, widgets>>

Next ==
    \/ Tick
    \/ Wait
    \/ ClockStepBack
    \/ ClickClear
    \/ ClickGenerateBlank
    \/ ClickGenerate
    \/ BuildUrl
    \/ Download
    \/ RenderItem
    \/ ClickSave

Spec == Init /\ [][Next]_vars

(* ------------------------- notions of the claims ---------------------- *)
\* The current run is a batch: Generate was clicked with a valid prompt.
InBatch == clicked = "gen" /\ ~IsBlank(prompt)

\* The batch of the current run has ended (the run is in, or past, the history
\* section).
BatchOver == InBatch /\ pc \in {"history", "idle"}

\* The prompt is empty or consists of whitespace only.
BlankPrompt(p) == \A i \in 1..Len(p) : p[i] \in Whitespace

\* The indexes of the variations that succeeded so far, in order.
Succeeded ==
    LET ok(k) == k \notin Range(failures)
    IN  SelectSeq(attempted, ok)

\* The step is an iteration of the download loop.
DownloadStep == pc = "download" /\ attempted' # attempted

\* The step is an iteration of the history loop.
RenderStep == pc = "history" /\ (idx' # idx \/ pc' # pc)

(* -------------------------------- C1 ---------------------------------- *)
\* C1: once the URL loop of a batch with variationCount = N is over, exactly N
\* URLs have been built; when the batch has ended, exactly N fetches have been
\* attempted and the successes plus the reported failures number N.
C1_BatchCounts ==
    /\ InBatch /\ pc # "urls" => Len(urls) = variations
    /\ BatchOver =>
        /\ Len(attempted) = variations
        /\ Len(images_downloaded) + Len(failures) = variations

\* A batch of two variations has ended with one success and one failure.
C1_Witness ==
    /\ BatchOver
    /\ variations = 2
    /\ Len(images_downloaded) = 1
    /\ Len(failures) = 1

(* -------------------------------- C2 ---------------------------------- *)
\* A call served from the cache is backed by a successful network call for the
\* same URL made less than the time to live before it; so a call made once the
\* time to live has expired goes to the network again.
FreshEntryBehindEveryHit ==
    \A c \in Range(lastFetch) :
        ~c.net => \E i \in 1..Len(netLog) :
                      /\ netLog[i].url = c.url
                      /\ netLog[i].ok
                      /\ c.at - netLog[i].at < TTL * 1000

\* C2 as stated: no two network calls for the same URL are made within the time
\* to live of each other, and a call after expiry goes to the network again.
C2_Original ==
    /\ \A i, j \in 1..Len(netLog) :
          (i < j /\ netLog[i].url = netLog[j].url)
              => netLog[j].at - netLog[i].at >= TTL * 1000
    /\ FreshEntryBehindEveryHit

\* C2, amended: two fetch calls for the same URL within the time to live, the
\* first of which returned bytes, go to the network at most once (only a failed
\* call is followed by another network call within the time to live); a call
\* after expiry goes to the network again.
C2_CacheWithinTTL ==
    /\ \A i, j \in 1..Len(netLog) :
          (i < j /\ netLog[i].url = netLog[j].url /\ netLog[i].ok)
              => netLog[j].at - netLog[i].at >= TTL * 1000
    /\ FreshEntryBehindEveryHit

\* A URL was fetched from the network, fetched again from the network once the
\* time to live had expired, and then served from the cache.
C2_Witness ==
    /\ Len(netLog) = 2
    /\ netLog[1].url = netLog[2].url
    /\ netLog[1].ok /\ netLog[2].ok
    /\ netLog[2].at - netLog[1].at >= TTL * 1000
    /\ \E c \in Range(lastFetch) : c.url = netLog[2].url /\ ~c.net

(* -------------------------------- C3 ---------------------------------- *)
\* C3: under seedMode = Random the seeds of the variations of one batch are
\* pairwise distinct.
C3_RandomSeedsDistinct ==
    InBatch /\ seed_mode = "Random" =>
        \A i, j \in 1..Len(urls) : i < j => urls[i][2] # urls[j][2]

(* -------------------------------- C4 ---------------------------------- *)
\* C4: under seedMode = Fixed with fixedSeed = s all request URLs of the batch
\* are the same string, which ends in "&seed=s", and every record the batch
\* has put into the history has seed = s.
C4_FixedSeed ==
    InBatch /\ seed_mode = "Fixed" =>
        /\ \A i \in 1..Len(urls) :
              /\ urls[i][1] = urls[1][1]
              /\ urls[i][1] = "https://image.pollinations.ai/prompt/" \o quote(final_prompt)
                                \o "?width=" \o ToString(w) \o "&height=" \o ToString(h)
                                \o "&seed=" \o ToString(seed_value)
              /\ urls[i][2] = seed_value
        /\ Len(history) >= Len(images_downloaded)
        /\ \A k \in 1..Len(images_downloaded) : history[k].seed = seed_value

\* A Fixed-seed batch of two variations has ended with two successes.
C4_Witness ==
    /\ BatchOver
    /\ seed_mode = "Fixed"
    /\ variations = 2
    /\ Len(images_downloaded) = 2

(* -------------------------------- C5 ---------------------------------- *)
\* C5: a failed fetch of variation i is reported with index i, puts nothing into
\* the history, and neither ends the run nor the loop: the next variation, if
\* any, is fetched next; a batch that has ended has attempted 1..N in order.
C5_FailureIsolated ==
    [][ /\ (DownloadStep /\ failures' # failures) =>
              /\ failures' = Append(failures, idx)
              /\ history' = history
              /\ favorites' = favorites
              /\ images_downloaded' = images_downloaded
              /\ ~crashed'
              /\ idx < Len(urls) => (pc' = "download" /\ idx' = idx + 1)
        /\ BatchOver' => attempted' = [ k \in 1..variations' |-> k ] ]_vars

\* The first of two variations failed and the second was fetched all the same.
C5_Witness ==
    /\ BatchOver
    /\ failures = <<1>>
    /\ attempted = <<1, 2>>

(* -------------------------------- C6 ---------------------------------- *)
\* C6: a history insert puts the new record first, lengthens the history by one
\* and keeps the previous entries in order behind it; a clear empties the
\* history and leaves the favorites alone; nothing else changes the history.
C6_HistoryOps ==
    [][ /\ (DownloadStep /\ failures' = failures) =>
              /\ history'[1] = Record(urls[idx][1], urls[idx][2])
              /\ Len(history') = Len(history) + 1
              /\ \A k \in 1..Len(history) : history'[k + 1] = history[k]
        /\ (clicked' = "clear" /\ events' # events) =>
              /\ history' = <<>>
              /\ favorites' = favorites
        /\ history' # history =>
              \/ DownloadStep /\ failures' = failures
              \/ clicked' = "clear" /\ events' # events ]_vars

\* The history was cleared while the favorites held an entry.
C6_Witness ==
    /\ clicked = "clear"
    /\ history = <<>>
    /\ favorites # <<>>

(* -------------------------------- C7 ---------------------------------- *)
\* C7: the favorites change only by a promotion, which puts one entry of the
\* current history in front of them and leaves the history unchanged; the Save
\* button that was clicked promotes its item whether or not it is a favorite
\* already.
C7_Favorites ==
    [][ /\ favorites' # favorites =>
              /\ \E k \in 1..Len(history) : favorites' = <<history[k]>> \o favorites
              /\ history' = history
        /\ (RenderStep /\ clicked = SaveKey(history[idx]) /\ clicked \notin rendered) =>
              favorites' = <<history[idx]>> \o favorites ]_vars

\* The same history entry was promoted twice.
C7_Witness ==
    /\ Len(favorites) = 2
    /\ favorites[1] = favorites[2]
    /\ favorites[1] \in Range(history)

(* -------------------------------- C8 ---------------------------------- *)
\* C8: a Generate click with an empty or whitespace-only prompt starts no batch:
\* no URL is built, no download is attempted, and the run changes neither the
\* history nor the favorites.
C8_BlankPromptRejected ==
    [][ (clicked' = "gen" /\ BlankPrompt(prompt')) =>
            /\ urls' = <<>>
            /\ attempted' = <<>>
            /\ images_downloaded' = <<>>
            /\ pc' \notin {"urls", "download"}
            /\ batches' = batches
            /\ history' = history
            /\ favorites' = favorites ]_vars

\* A whitespace-only prompt was rejected in a session that has a history and
\* favorites.
C8_Witness ==
    /\ clicked = "gen"
    /\ prompt = <<" ", "\t">>
    /\ pc = "idle"
    /\ history # <<>>
    /\ favorites # <<>>

(* -------------------------------- C9 ---------------------------------- *)
\* C9: the j-th result of a batch carries the filename
\* ps333_{lowercased style}_{k}_seed{seed}.png, k being the 1-based index of the
\* variation it came from, and the filenames of a batch are pairwise distinct.
C9_Filenames ==
    InBatch =>
        /\ Len(images_downloaded) = Len(Succeeded)
        /\ \A j \in 1..Len(images_downloaded) :
              images_downloaded[j][1] =
                  "ps333_" \o Join(Lower(style)) \o "_" \o ToString(Succeeded[j])
                      \o "_seed" \o ToString(urls[Succeeded[j]][2]) \o ".png"
        /\ \A i, j \in 1..Len(images_downloaded) :
              i < j => images_downloaded[i][1] # images_downloaded[j][1]

\* Under a fixed seed the first variation failed and the second succeeded: the
\* only result is named after index 2.
C9_Witness ==
    /\ BatchOver
    /\ failures = <<1>>
    /\ Len(images_downloaded) = 1
    /\ images_downloaded[1][1] = "ps333_anime_2_seed42.png"

(* -------------------------------- C10 --------------------------------- *)
\* C10: the history entries that are shown have pairwise distinct (createdAt,
\* seed) pairs, and no run ends in the exception of a duplicate Save key.
C10_SaveKeysDistinct ==
    /\ \A i, j \in 1..ShownCount(history) :
          i < j => <<history[i].ts, history[i].seed>> # <<history[j].ts, history[j].seed>>
    /\ ~crashed

=============================================================================
